---- MODULE Spec2Model ----
(***************************************************************************)
(* Model of src/src/utils/QuickSort.js: the Lomuto partition, the three-way *)
(* partition, the four recursive sort variants, the iterative variant with *)
(* its explicit stack, and the demonstration harness that runs every       *)
(* variant on a copy of the same input.                                    *)
(*                                                                         *)
(* Arrays are sequences; the source's 0-based index i is position i+1.     *)
(* The call stack of the recursive variants is the variable frames, the    *)
(* explicit stack of iterativeQuickSort is the variable stack, and the     *)
(* locals of the running partition loop are the variable loop.             *)
(***************************************************************************)
EXTENDS Integers, Sequences, FiniteSets, TLC

\* Bounds of the enumerated inputs.
MaxLen == 3
MaxVal == 2

\* Cap of the bookkeeping counters in stats; no run of the code reaches it.
MaxCount == 60

\* Longest array the partition functions are called on directly.
MaxHelperLen == 4

\* Number of values Math.random() is drawn from: k / RandomGrain, k < RandomGrain.
\* At least the length of the longest input, so that every index can come up.
RandomGrain == 8

\* What JavaScript yields for a read outside the array.
Undef == -1

\* The documented example inputs (testArrays) that the bounded enumeration
\* does not already contain.
DocInputs ==
  { <<64, 34, 25, 12, 22, 11, 90>>,
    <<5, 4, 3, 2, 1>>,
    <<1, 1, 1, 1, 1>> }

RECURSIVE SeqsUpTo(_)
SeqsUpTo(n) ==
  IF n = 0 THEN { <<>> }
  ELSE LET S == SeqsUpTo(n - 1)
       IN  S \cup { Append(s, v) : s \in { t \in S : Len(t) = n - 1 }, v \in 0..MaxVal }

Inputs == SeqsUpTo(MaxLen) \cup DocInputs

\* The exported sort variants, in the order the harness runs them.
Variants ==
  << "quickSort", "randomizedQuickSort", "medianOfThreeQuickSort",
     "iterativeQuickSort", "threeWayQuickSort" >>

VariantSet == { Variants[k] : k \in 1..Len(Variants) }

NotRun == << Undef >>

VARIABLES
  input,    \* the caller's original array (a testArrays element, benchmarkSort's arr)
  arr,      \* the array object handed to the running sort ([...arr])
  mode,     \* "idle" | "running" | "returned" | "helperReturned"
  variant,  \* the exported function running or last run, "none" before the first call
  args,     \* the call's arguments: [low, high, explicit]
  frames,   \* call stack of the sort functions, top is the last element
  stack,    \* iterativeQuickSort's explicit stack of indices
  loop,     \* locals of the partition / threeWayPartition call in progress
  results,  \* per variant, the array it left on a default-bounds call
  ret,      \* the reference the call returned: 0 none yet, ArrRef the array it was given
  stats,    \* bookkeeping of the current call: the counters swaps, partitions,
            \* iters, pops, the flag oob, ids: for each position the original
            \* index of the element it now holds, and pivots: the indices
            \* partition has returned (fixed) and whether a swap has written
            \* to one of them since (rewritten)
  bench,    \* benchmarkSort's activation: [active, name, testArr, report]
  verdict   \* what a direct call of isSorted returned: [given, sorted]

vars ==
  << input, arr, mode, variant, args, frames, stack, loop, results, ret, stats, bench,
     verdict >>

\* Object identities: the array a sort function is given, and the caller's
\* own array when that is a different object.
ArrRef == 1

CallerRef == 3

----------------------------------------------------------------------------
\* Array access

InRange(a, i) == i >= 0 /\ i <= Len(a) - 1

At(a, i) == IF InRange(a, i) THEN a[i + 1] ELSE Undef

\* JavaScript's relational operators are false whenever an operand is undefined.
Lt(x, y) == x # Undef /\ y # Undef /\ x < y

Leq(x, y) == x # Undef /\ y # Undef /\ x <= y

Gt(x, y) == x # Undef /\ y # Undef /\ x > y

\* A swap that loses the saved element: arr[i] = arr[j]; arr[j] = arr[i].
swap_Clobber(a, i, j) == [k \in 1..Len(a) |-> IF k = i + 1 THEN At(a, j) ELSE a[k]]

swap(a, i, j) ==
  IF InRange(a, i) /\ InRange(a, j)
  THEN [a EXCEPT ![i + 1] = a[j + 1], ![j + 1] = a[i + 1]]
  ELSE [k \in 1..Len(a) |->
          IF k = i + 1 THEN At(a, j) ELSE IF k = j + 1 THEN At(a, i) ELSE a[k]]

\* The test made strict: arr[i] <= arr[i - 1] already counts as out of order.
isSorted_Strict(a) == \A i \in 1..(Len(a) - 1) : ~ Leq(At(a, i), At(a, i - 1))

isSorted(a) == \A i \in 1..(Len(a) - 1) : ~ Lt(At(a, i), At(a, i - 1))

NoStats ==
  [swaps |-> 0, partitions |-> 0, iters |-> 0, pops |-> 0, oob |-> FALSE,
   ids |-> [k \in 1..Len(input) |-> k - 1],
   pivots |-> [fixed |-> {}, rewritten |-> FALSE]]

Sat(n) == IF n > MaxCount THEN MaxCount ELSE n

\* Account for n swap calls, one loop iteration or not, and the indices read or written.
Touch(s, a, nswaps, niters, idx) ==
  [s EXCEPT !.swaps = Sat(@ + nswaps),
            !.iters = Sat(@ + niters),
            !.oob = @ \/ (\E i \in idx : ~ InRange(a, i))]

\* swap(arr, i, j) wrote to i and j: the elements' identities move with them.
Moved(s, i, j) ==
  [s EXCEPT !.ids = swap(@, i, j),
            !.pivots = [fixed |-> @.fixed,
                        rewritten |-> @.rewritten \/ ({i, j} \cap @.fixed # {})]]

\* partition returned the index p.
Fixed(s, p) == [s EXCEPT !.pivots.fixed = @ \cup {p}]

RECURSIVE MovedAll(_, _)
MovedAll(s, moves) ==
  IF moves = << >> THEN s
  ELSE MovedAll(Moved(s, moves[1][1], moves[1][2]), Tail(moves))

----------------------------------------------------------------------------
\* Frames and loop locals

Frame(fn, low, high) ==
  [fn |-> fn, low |-> low, high |-> high, pc |-> "entry",
   pivotIndex |-> 0, lt |-> 0, gt |-> 0]

NoLoop ==
  [fn |-> "none", low |-> 0, high |-> 0, pivot |-> Undef,
   i |-> 0, j |-> 0, lt |-> 0, gt |-> 0]

Top == frames[Len(frames)]

SetTop(f) == [frames EXCEPT ![Len(frames)] = f]

Pop(s) == SubSeq(s, 1, Len(s) - 1)

Running(fn) == mode = "running" /\ Len(frames) > 0 /\ Top.fn = fn

NoReport == [algorithm |-> "", isSorted |-> FALSE, arrayLength |-> Undef]

NoBench == [active |-> FALSE, name |-> "", testArr |-> 0, report |-> NoReport]

NoVerdict == [given |-> FALSE, sorted |-> FALSE]

\* The state before any call, the caller holding one of the arrays of S.
StartOn(S) ==
  /\ input \in S
  /\ arr = input
  /\ mode = "idle"
  /\ variant = "none"
  /\ args = [low |-> 0, high |-> Len(input) - 1, explicit |-> FALSE]
  /\ frames = << >>
  /\ stack = << >>
  /\ loop = NoLoop
  /\ results = [v \in VariantSet |-> NotRun]
  /\ ret = 0
  /\ stats = NoStats
  /\ bench = NoBench
  /\ verdict = NoVerdict

Init == StartOn(Inputs)

----------------------------------------------------------------------------
\* The harness: each variant is called on a fresh copy of the input.

\* Number of variants that have already been run on this input.
Done == Cardinality({ v \in VariantSet : results[v] # NotRun })

\* sortFunction([...arr]) with the default bounds low = 0, high = arr.length - 1.
Call ==
  /\ mode \in {"idle", "returned"}
  /\ ~ args.explicit
  /\ ~ bench.active
  /\ Done < Len(Variants)
  /\ variant' = Variants[Done + 1]
  /\ arr' = input
  /\ args' = [low |-> 0, high |-> Len(input) - 1, explicit |-> FALSE]
  /\ frames' = << Frame(variant', 0, Len(input) - 1) >>
  /\ stack' = << >>
  /\ loop' = NoLoop
  /\ ret' = 0
  /\ stats' = NoStats
  /\ mode' = "running"
  /\ UNCHANGED << verdict, bench, input, results >>

\* sortFunction([...arr], low, high) with explicit bounds inside the array.
\* iterativeQuickSort declares the single parameter arr: the extra arguments
\* are dropped by the call.
CallWithBounds ==
  /\ mode = "idle"
  /\ Len(input) <= MaxLen
  /\ \E v \in VariantSet, low \in 0..(Len(input) - 1), high \in 0..(Len(input) - 1) :
       /\ low <= high
       /\ variant' = v
       /\ args' = [low |-> low, high |-> high, explicit |-> TRUE]
       /\ frames' = << IF v = "iterativeQuickSort"
                       THEN Frame(v, 0, 0)
                       ELSE Frame(v, low, high) >>
  /\ arr' = input
  /\ stack' = << >>
  /\ loop' = NoLoop
  /\ ret' = 0
  /\ stats' = NoStats
  /\ mode' = "running"
  /\ UNCHANGED << verdict, bench, input, results >>

\* The exported functions other than the sort variants, called on their own.
Helpers == { "partition", "hoarePartition", "isSorted" }

\* Handing back a fresh copy (`return [...arr]`) instead of the array given.
ReturnValue_Copy == ArrRef + 1

\* The reference a sort function hands back: `return arr`.
ReturnValue == ArrRef

\* The rest of benchmarkSort once sortFunction(testArr) is back: the report.
\* (executionTime, a reading of the clock, is left out.)  The sort worked on
\* the object testArr names: the caller's array changed if that is the same
\* object.
BenchmarkReport ==
  /\ bench' = [bench EXCEPT !.report =
                 [algorithm |-> bench.name,
                  isSorted |-> isSorted(arr),
                  arrayLength |-> Len(input)]]
  /\ input' = IF bench.testArr = CallerRef THEN arr ELSE input

\* Effect of `return arr` in the top frame.  The outermost return hands the
\* array to the code that called the sort function.
ReturnArr ==
  /\ frames' = Pop(frames)
  /\ IF Len(frames) = 1
     THEN /\ mode' = "returned"
          /\ ret' = ReturnValue
          /\ IF bench.active
             THEN BenchmarkReport /\ results' = results
             ELSE /\ results' = IF args.explicit THEN results
                                ELSE [results EXCEPT ![variant] = arr]
                  /\ UNCHANGED << verdict, bench, input >>
     ELSE UNCHANGED << mode, ret, results, bench, input >>
  /\ UNCHANGED << verdict, arr, variant, args, stack, loop, stats >>

\* isSorted(arr) called on the caller's own array: the loop of lines 246-250
\* reads it and writes nothing.
isSortedCall ==
  /\ mode = "idle"
  /\ variant' = "isSorted"
  /\ verdict' = [given |-> TRUE, sorted |-> isSorted(input)]
  /\ arr' = input
  /\ args' = [low |-> 0, high |-> Len(input) - 1, explicit |-> FALSE]
  /\ stats' = NoStats
  /\ mode' = "helperReturned"
  /\ UNCHANGED << input, frames, stack, loop, results, ret, bench >>

\* The labels a benchmark is run under.
Labels == { "QuickSort", "Sorter" }

\* The array handed to sortFunction without the copy: const testArr = arr.
TestArr_NoCopy == CallerRef

\* const testArr = [...arr]: a fresh object.
TestArr == ArrRef

\* benchmarkSort(arr, sortFunction, name) up to the call sortFunction(testArr).
benchmarkSort ==
  /\ mode = "idle"
  /\ Len(input) <= MaxLen
  /\ \E sortFunction \in VariantSet, name \in Labels :
       /\ variant' = sortFunction
       /\ bench' = [active |-> TRUE, name |-> name, testArr |-> TestArr,
                    report |-> NoReport]
       /\ frames' = << Frame(sortFunction, 0, Len(input) - 1) >>
  /\ arr' = input
  /\ args' = [low |-> 0, high |-> Len(input) - 1, explicit |-> FALSE]
  /\ stack' = << >>
  /\ loop' = NoLoop
  /\ ret' = 0
  /\ stats' = NoStats
  /\ mode' = "running"
  /\ UNCHANGED << verdict, input, results >>

----------------------------------------------------------------------------
\* partition (Lomuto scheme)

\* The scan started one position early: j = low - 1.
PartitionLocals_StartBelow(a, low, high) ==
  [fn |-> "partition", low |-> low, high |-> high, pivot |-> At(a, high),
   i |-> low - 1, j |-> low - 1, lt |-> 0, gt |-> 0]

\* const pivot = arr[high]; let i = low - 1; for (let j = low; ...
PartitionLocals(a, low, high) ==
  [fn |-> "partition", low |-> low, high |-> high, pivot |-> At(a, high),
   i |-> low - 1, j |-> low, lt |-> 0, gt |-> 0]

CallPartition(a, low, high, s) ==
  /\ loop' = PartitionLocals(a, low, high)
  /\ stats' = [Touch(s, a, 0, 0, {high}) EXCEPT !.partitions = Sat(@ + 1)]

\* The comparison inverted: arr[j] >= pivot.
partitionLoop_Descending ==
  /\ mode = "running"
  /\ loop.fn = "partition"
  /\ loop.j < loop.high
  /\ IF Leq(loop.pivot, At(arr, loop.j))
     THEN /\ arr' = swap(arr, loop.i + 1, loop.j)
          /\ loop' = [loop EXCEPT !.i = @ + 1, !.j = @ + 1]
          /\ stats' = Moved(Touch(stats, arr, 1, 1, {loop.i + 1, loop.j}), loop.i + 1, loop.j)
     ELSE /\ arr' = arr
          /\ loop' = [loop EXCEPT !.j = @ + 1]
          /\ stats' = Touch(stats, arr, 0, 1, {loop.j})
  /\ UNCHANGED << verdict, bench, input, mode, variant, args, frames, stack, results, ret >>

\* The comparison made strict: arr[j] < pivot.
partitionLoop_Strict ==
  /\ mode = "running"
  /\ loop.fn = "partition"
  /\ loop.j < loop.high
  /\ IF Lt(At(arr, loop.j), loop.pivot)
     THEN /\ arr' = swap(arr, loop.i + 1, loop.j)
          /\ loop' = [loop EXCEPT !.i = @ + 1, !.j = @ + 1]
          /\ stats' = Moved(Touch(stats, arr, 1, 1, {loop.i + 1, loop.j}), loop.i + 1, loop.j)
     ELSE /\ arr' = arr
          /\ loop' = [loop EXCEPT !.j = @ + 1]
          /\ stats' = Touch(stats, arr, 0, 1, {loop.j})
  /\ UNCHANGED << verdict, bench, input, mode, variant, args, frames, stack, results, ret >>

\* One iteration of the for loop.
partitionLoop ==
  /\ mode = "running"
  /\ loop.fn = "partition"
  /\ loop.j < loop.high
  /\ IF Leq(At(arr, loop.j), loop.pivot)
     THEN /\ arr' = swap(arr, loop.i + 1, loop.j)
          /\ loop' = [loop EXCEPT !.i = @ + 1, !.j = @ + 1]
          /\ stats' = Moved(Touch(stats, arr, 1, 1, {loop.i + 1, loop.j}), loop.i + 1, loop.j)
     ELSE /\ arr' = arr
          /\ loop' = [loop EXCEPT !.j = @ + 1]
          /\ stats' = Touch(stats, arr, 0, 1, {loop.j})
  /\ UNCHANGED << verdict, bench, input, mode, variant, args, frames, stack, results, ret >>

\* partition without the final placement of the pivot.
partitionReturn_NoPivotSwap ==
  /\ mode = "running"
  /\ loop.fn = "partition"
  /\ ~ (loop.j < loop.high)
  /\ arr' = arr
  /\ stats' = Fixed(stats, loop.i + 1)
  /\ frames' = SetTop([Top EXCEPT !.pivotIndex = loop.i + 1, !.pc = "after"])
  /\ loop' = NoLoop
  /\ UNCHANGED << verdict, bench, input, mode, variant, args, stack, results, ret >>

\* Loop exit: swap(arr, i + 1, high); return i + 1.
partitionReturn ==
  /\ mode = "running"
  /\ loop.fn = "partition"
  /\ ~ (loop.j < loop.high)
  /\ arr' = swap(arr, loop.i + 1, loop.high)
  /\ stats' = Fixed(Moved(Touch(stats, arr, 1, 0, {loop.i + 1, loop.high}),
                          loop.i + 1, loop.high),
                    loop.i + 1)
  /\ frames' = SetTop([Top EXCEPT !.pivotIndex = loop.i + 1, !.pc = "after"])
  /\ loop' = NoLoop
  /\ UNCHANGED << verdict, bench, input, mode, variant, args, stack, results, ret >>

\* partition([...arr], low, high) called directly, bounds inside the array.
\* The frame is the caller's: it receives the index returned.
partitionCall ==
  /\ mode = "idle"
  /\ Len(input) <= MaxHelperLen
  /\ \E low \in 0..(Len(input) - 1), high \in 0..(Len(input) - 1) :
       /\ low <= high
       /\ args' = [low |-> low, high |-> high, explicit |-> TRUE]
       /\ frames' = << [Frame("caller", low, high) EXCEPT !.pc = "partition"] >>
       /\ CallPartition(input, low, high, NoStats)
  /\ variant' = "partition"
  /\ arr' = input
  /\ stack' = << >>
  /\ ret' = 0
  /\ mode' = "running"
  /\ UNCHANGED << verdict, bench, input, results >>

\* The caller has the helper's result (the frame's pivotIndex) in hand.
helperReturn ==
  /\ Running("caller")
  /\ Top.pc = "after"
  /\ mode' = "helperReturned"
  /\ UNCHANGED << verdict, bench, input, arr, variant, args, frames, stack, loop, results, ret, stats >>

----------------------------------------------------------------------------
\* hoarePartition, which no sort variant uses: it is reached by a direct call.
\* The caller's frame holds the position inside the function: "scanI" and
\* "scanJ" are the two do-while loops, "test" the if (i >= j).

\* The pivot taken from the other end of the range: arr[high].
HoareLocals_PivotHigh(a, low, high) ==
  [fn |-> "hoarePartition", low |-> low, high |-> high, pivot |-> At(a, high),
   i |-> low - 1, j |-> high + 1, lt |-> 0, gt |-> 0]

\* const pivot = arr[low]; let i = low - 1; let j = high + 1;
HoareLocals(a, low, high) ==
  [fn |-> "hoarePartition", low |-> low, high |-> high, pivot |-> At(a, low),
   i |-> low - 1, j |-> high + 1, lt |-> 0, gt |-> 0]

\* hoarePartition([...arr], low, high) with bounds inside the array.
hoareCall ==
  /\ mode = "idle"
  /\ Len(input) <= MaxHelperLen
  /\ \E low \in 0..(Len(input) - 1), high \in 0..(Len(input) - 1) :
       /\ low <= high
       /\ args' = [low |-> low, high |-> high, explicit |-> TRUE]
       /\ frames' = << [Frame("caller", low, high) EXCEPT !.pc = "scanI"] >>
       /\ loop' = HoareLocals(input, low, high)
       /\ stats' = Touch(NoStats, input, 0, 0, {low})
  /\ variant' = "hoarePartition"
  /\ arr' = input
  /\ stack' = << >>
  /\ ret' = 0
  /\ mode' = "running"
  /\ UNCHANGED << verdict, bench, input, results >>

\* do { i++; } while (arr[i] < pivot);
hoareScanI ==
  /\ Running("caller")
  /\ loop.fn = "hoarePartition"
  /\ Top.pc = "scanI"
  /\ LET i == loop.i + 1
     IN  /\ loop' = [loop EXCEPT !.i = i]
         /\ frames' = SetTop([Top EXCEPT !.pc =
                        IF Lt(At(arr, i), loop.pivot) THEN "scanI" ELSE "scanJ"])
         /\ stats' = Touch(stats, arr, 0, 1, {i})
  /\ UNCHANGED << verdict, bench, input, arr, mode, variant, args, stack, results, ret >>

\* do { j--; } while (arr[j] > pivot);
hoareScanJ ==
  /\ Running("caller")
  /\ loop.fn = "hoarePartition"
  /\ Top.pc = "scanJ"
  /\ LET j == loop.j - 1
     IN  /\ loop' = [loop EXCEPT !.j = j]
         /\ frames' = SetTop([Top EXCEPT !.pc =
                        IF Gt(At(arr, j), loop.pivot) THEN "scanJ" ELSE "test"])
         /\ stats' = Touch(stats, arr, 0, 1, {j})
  /\ UNCHANGED << verdict, bench, input, arr, mode, variant, args, stack, results, ret >>

\* The split index handed back once the scans have met: `return j`.
HoareResult_I(l) == l.i

HoareResult(l) == l.j

\* The scans taken to have met only once they have crossed: if (i > j).
hoareTest_Strict ==
  /\ Running("caller")
  /\ loop.fn = "hoarePartition"
  /\ Top.pc = "test"
  /\ IF loop.i > loop.j
     THEN /\ frames' = SetTop([Top EXCEPT !.pivotIndex = HoareResult(loop), !.pc = "after"])
          /\ loop' = NoLoop
          /\ UNCHANGED << arr, stats >>
     ELSE /\ arr' = swap(arr, loop.i, loop.j)
          /\ stats' = Moved(Touch(stats, arr, 1, 0, {loop.i, loop.j}), loop.i, loop.j)
          /\ frames' = SetTop([Top EXCEPT !.pc = "scanI"])
          /\ loop' = loop
  /\ UNCHANGED << verdict, bench, input, mode, variant, args, stack, results, ret >>

\* if (i >= j) return j; swap(arr, i, j);
hoareTest ==
  /\ Running("caller")
  /\ loop.fn = "hoarePartition"
  /\ Top.pc = "test"
  /\ IF loop.i >= loop.j
     THEN /\ frames' = SetTop([Top EXCEPT !.pivotIndex = HoareResult(loop), !.pc = "after"])
          /\ loop' = NoLoop
          /\ UNCHANGED << arr, stats >>
     ELSE /\ arr' = swap(arr, loop.i, loop.j)
          /\ stats' = Moved(Touch(stats, arr, 1, 0, {loop.i, loop.j}), loop.i, loop.j)
          /\ frames' = SetTop([Top EXCEPT !.pc = "scanI"])
          /\ loop' = loop
  /\ UNCHANGED << verdict, bench, input, mode, variant, args, stack, results, ret >>

----------------------------------------------------------------------------
\* The recursive variants built on partition

RecursiveFns ==
  { "quickSort", "randomizedQuickSort", "medianOfThreeQuickSort", "threeWayQuickSort" }

\* The guard written low <= high: a one-element range is partitioned too.
quickSort_Inclusive ==
  /\ Running("quickSort")
  /\ Top.pc = "entry"
  /\ Top.low <= Top.high
  /\ CallPartition(arr, Top.low, Top.high, stats)
  /\ frames' = SetTop([Top EXCEPT !.pc = "partition"])
  /\ UNCHANGED << verdict, bench, input, arr, mode, variant, args, stack, results, ret >>

\* if (low < high) { const pivotIndex = partition(arr, low, high); ...
quickSort ==
  /\ Running("quickSort")
  /\ Top.pc = "entry"
  /\ Top.low < Top.high
  /\ CallPartition(arr, Top.low, Top.high, stats)
  /\ frames' = SetTop([Top EXCEPT !.pc = "partition"])
  /\ UNCHANGED << verdict, bench, input, arr, mode, variant, args, stack, results, ret >>

\* The pivot index computed without the offset: Math.floor(Math.random() *
\* (high - low + 1)).
RandomIndices_NoOffset(low, high) ==
  { (k * (high - low + 1)) \div RandomGrain : k \in 0..(RandomGrain - 1) }

\* Math.floor(Math.random() * (high - low + 1)) + low, with Math.random()
\* one of the fractions k / RandomGrain of [0, 1).
RandomIndices(low, high) ==
  { (k * (high - low + 1)) \div RandomGrain + low : k \in 0..(RandomGrain - 1) }

randomizedQuickSort ==
  /\ Running("randomizedQuickSort")
  /\ Top.pc = "entry"
  /\ Top.low < Top.high
  /\ \E randomIndex \in RandomIndices(Top.low, Top.high) :
       /\ arr' = swap(arr, randomIndex, Top.high)
       /\ CallPartition(arr', Top.low, Top.high,
                        Moved(Touch(stats, arr, 1, 0, {randomIndex, Top.high}),
                              randomIndex, Top.high))
  /\ frames' = SetTop([Top EXCEPT !.pc = "partition"])
  /\ UNCHANGED << verdict, bench, input, mode, variant, args, stack, results, ret >>

\* Math.floor((low + high) / 2)
Mid(low, high) == (low + high) \div 2

\* The third compare-and-swap left out: mid and high are not put in order.
medianOfThree_NoThird(a, low, high) ==
  LET mid == Mid(low, high)
      c1  == Lt(At(a, mid), At(a, low))
      a1  == IF c1 THEN swap(a, low, mid) ELSE a
      c2  == Lt(At(a1, high), At(a1, low))
      a2  == IF c2 THEN swap(a1, low, high) ELSE a1
      n   == (IF c1 THEN 1 ELSE 0) + (IF c2 THEN 1 ELSE 0)
      mv  == (IF c1 THEN << << low, mid >> >> ELSE << >>)
               \o (IF c2 THEN << << low, high >> >> ELSE << >>)
  IN  [arr |-> a2, mid |-> mid, swaps |-> n, moves |-> mv]

\* Three compare-and-swap steps on (low, mid, high); returns mid.
medianOfThree(a, low, high) ==
  LET mid == Mid(low, high)
      c1  == Lt(At(a, mid), At(a, low))
      a1  == IF c1 THEN swap(a, low, mid) ELSE a
      c2  == Lt(At(a1, high), At(a1, low))
      a2  == IF c2 THEN swap(a1, low, high) ELSE a1
      c3  == Lt(At(a2, high), At(a2, mid))
      a3  == IF c3 THEN swap(a2, mid, high) ELSE a2
      n   == (IF c1 THEN 1 ELSE 0) + (IF c2 THEN 1 ELSE 0) + (IF c3 THEN 1 ELSE 0)
      mv  == (IF c1 THEN << << low, mid >> >> ELSE << >>)
               \o (IF c2 THEN << << low, high >> >> ELSE << >>)
               \o (IF c3 THEN << << mid, high >> >> ELSE << >>)
  IN  [arr |-> a3, mid |-> mid, swaps |-> n, moves |-> mv]

medianOfThreeQuickSort ==
  /\ Running("medianOfThreeQuickSort")
  /\ Top.pc = "entry"
  /\ Top.low < Top.high
  /\ LET m == medianOfThree(arr, Top.low, Top.high)
         pivotIndex == m.mid
     IN  /\ arr' = swap(m.arr, pivotIndex, Top.high)
         /\ CallPartition(arr', Top.low, Top.high,
                          Moved(MovedAll(Touch(stats, arr, m.swaps + 1, 0,
                                               {Top.low, pivotIndex, Top.high}),
                                         m.moves),
                                pivotIndex, Top.high))
  /\ frames' = SetTop([Top EXCEPT !.pc = "partition"])
  /\ UNCHANGED << verdict, bench, input, mode, variant, args, stack, results, ret >>

\* Bounds of the first and of the second recursive call of a frame.
LeftRange_ThroughLt(f) ==
  IF f.fn = "threeWayQuickSort"
  THEN [low |-> f.low, high |-> f.lt]
  ELSE [low |-> f.low, high |-> f.pivotIndex - 1]

LeftRange(f) ==
  IF f.fn = "threeWayQuickSort"
  THEN [low |-> f.low, high |-> f.lt - 1]
  ELSE [low |-> f.low, high |-> f.pivotIndex - 1]

\* The second recursive call running to the end of the array instead of to high.
RightRange_ToEnd(f) ==
  IF f.fn = "threeWayQuickSort"
  THEN [low |-> f.gt + 1, high |-> Len(arr) - 1]
  ELSE [low |-> f.pivotIndex + 1, high |-> Len(arr) - 1]

RightRange(f) ==
  IF f.fn = "threeWayQuickSort"
  THEN [low |-> f.gt + 1, high |-> f.high]
  ELSE [low |-> f.pivotIndex + 1, high |-> f.high]

RecurseLeft ==
  /\ mode = "running" /\ Len(frames) > 0
  /\ Top.fn \in RecursiveFns
  /\ Top.pc = "after"
  /\ frames' = Append(SetTop([Top EXCEPT !.pc = "right"]),
                      Frame(Top.fn, LeftRange(Top).low, LeftRange(Top).high))
  /\ UNCHANGED << verdict, bench, input, arr, mode, variant, args, stack, loop, results, ret, stats >>

RecurseRight ==
  /\ mode = "running" /\ Len(frames) > 0
  /\ Top.fn \in RecursiveFns
  /\ Top.pc = "right"
  /\ frames' = Append(SetTop([Top EXCEPT !.pc = "ret"]),
                      Frame(Top.fn, RightRange(Top).low, RightRange(Top).high))
  /\ UNCHANGED << verdict, bench, input, arr, mode, variant, args, stack, loop, results, ret, stats >>

\* `return arr`, reached when the guard low < high fails or after both recursive calls.
Return ==
  /\ mode = "running" /\ Len(frames) > 0
  /\ Top.fn \in RecursiveFns
  /\ \/ Top.pc = "ret"
     \/ Top.pc = "entry" /\ ~ (Top.low < Top.high)
  /\ ReturnArr

----------------------------------------------------------------------------
\* threeWayQuickSort and threeWayPartition

\* The pivot taken from the wrong end of the range: arr[high].
ThreeWayLocals_PivotHigh(a, low, high) ==
  [fn |-> "threeWayPartition", low |-> low, high |-> high, pivot |-> At(a, high),
   i |-> low + 1, j |-> 0, lt |-> low, gt |-> high]

\* const pivot = arr[low]; let lt = low; let i = low + 1; let gt = high;
ThreeWayLocals(a, low, high) ==
  [fn |-> "threeWayPartition", low |-> low, high |-> high, pivot |-> At(a, low),
   i |-> low + 1, j |-> 0, lt |-> low, gt |-> high]

threeWayQuickSort ==
  /\ Running("threeWayQuickSort")
  /\ Top.pc = "entry"
  /\ Top.low < Top.high
  /\ loop' = ThreeWayLocals(arr, Top.low, Top.high)
  /\ stats' = [Touch(stats, arr, 0, 0, {Top.low}) EXCEPT !.partitions = Sat(@ + 1)]
  /\ frames' = SetTop([Top EXCEPT !.pc = "partition"])
  /\ UNCHANGED << verdict, bench, input, arr, mode, variant, args, stack, results, ret >>

\* Elements equal to the pivot sent to the greater zone: arr[i] >= pivot.
threeWayLoop_EqualAsGreater ==
  /\ mode = "running"
  /\ loop.fn = "threeWayPartition"
  /\ loop.i <= loop.gt
  /\ IF Lt(At(arr, loop.i), loop.pivot)
     THEN /\ arr' = swap(arr, loop.lt, loop.i)
          /\ loop' = [loop EXCEPT !.lt = @ + 1, !.i = @ + 1]
          /\ stats' = Moved(Touch(stats, arr, 1, 1, {loop.lt, loop.i}), loop.lt, loop.i)
     ELSE /\ arr' = swap(arr, loop.i, loop.gt)
          /\ loop' = [loop EXCEPT !.gt = @ - 1]
          /\ stats' = Moved(Touch(stats, arr, 1, 1, {loop.i, loop.gt}), loop.i, loop.gt)
  /\ UNCHANGED << verdict, bench, input, mode, variant, args, frames, stack, results, ret >>

\* One iteration of while (i <= gt).
threeWayLoop ==
  /\ mode = "running"
  /\ loop.fn = "threeWayPartition"
  /\ loop.i <= loop.gt
  /\ IF Lt(At(arr, loop.i), loop.pivot)
     THEN /\ arr' = swap(arr, loop.lt, loop.i)
          /\ loop' = [loop EXCEPT !.lt = @ + 1, !.i = @ + 1]
          /\ stats' = Moved(Touch(stats, arr, 1, 1, {loop.lt, loop.i}), loop.lt, loop.i)
     ELSE IF Gt(At(arr, loop.i), loop.pivot)
     THEN /\ arr' = swap(arr, loop.i, loop.gt)
          /\ loop' = [loop EXCEPT !.gt = @ - 1]
          /\ stats' = Moved(Touch(stats, arr, 1, 1, {loop.i, loop.gt}), loop.i, loop.gt)
     ELSE /\ arr' = arr
          /\ loop' = [loop EXCEPT !.i = @ + 1]
          /\ stats' = Touch(stats, arr, 0, 1, {loop.i})
  /\ UNCHANGED << verdict, bench, input, mode, variant, args, frames, stack, results, ret >>

\* return [lt, gt]
threeWayReturn ==
  /\ mode = "running"
  /\ loop.fn = "threeWayPartition"
  /\ ~ (loop.i <= loop.gt)
  /\ frames' = SetTop([Top EXCEPT !.lt = loop.lt, !.gt = loop.gt, !.pc = "after"])
  /\ loop' = NoLoop
  /\ UNCHANGED << verdict, bench, input, arr, mode, variant, args, stack, results, ret, stats >>

----------------------------------------------------------------------------
\* iterativeQuickSort

\* const stack = []; stack.push(0); stack.push(arr.length - 1);
iterativeInit ==
  /\ Running("iterativeQuickSort")
  /\ Top.pc = "entry"
  /\ stack' = << 0, Len(arr) - 1 >>
  /\ frames' = SetTop([Top EXCEPT !.pc = "while"])
  /\ UNCHANGED << verdict, bench, input, arr, mode, variant, args, loop, results, ret, stats >>

\* The popped range partitioned also when it has a single element: low <= high.
iterativePop_Inclusive ==
  /\ Running("iterativeQuickSort")
  /\ Top.pc = "while"
  /\ Len(stack) > 0
  /\ LET high == stack[Len(stack)]
         low  == stack[Len(stack) - 1]
         s    == [stats EXCEPT !.pops = Sat(@ + 1)]
     IN  /\ stack' = SubSeq(stack, 1, Len(stack) - 2)
         /\ IF low <= high
            THEN /\ CallPartition(arr, low, high, s)
                 /\ frames' = SetTop([Top EXCEPT !.low = low, !.high = high,
                                                 !.pc = "partition"])
            ELSE /\ loop' = loop
                 /\ stats' = s
                 /\ frames' = SetTop([Top EXCEPT !.low = low, !.high = high])
  /\ UNCHANGED << verdict, bench, input, arr, mode, variant, args, results, ret >>

\* high = stack.pop(); low = stack.pop(); if (low < high) partition(arr, low, high)
iterativePop ==
  /\ Running("iterativeQuickSort")
  /\ Top.pc = "while"
  /\ Len(stack) > 0
  /\ LET high == stack[Len(stack)]
         low  == stack[Len(stack) - 1]
         s    == [stats EXCEPT !.pops = Sat(@ + 1)]
     IN  /\ stack' = SubSeq(stack, 1, Len(stack) - 2)
         /\ IF low < high
            THEN /\ CallPartition(arr, low, high, s)
                 /\ frames' = SetTop([Top EXCEPT !.low = low, !.high = high,
                                                 !.pc = "partition"])
            ELSE /\ loop' = loop
                 /\ stats' = s
                 /\ frames' = SetTop([Top EXCEPT !.low = low, !.high = high])
  /\ UNCHANGED << verdict, bench, input, arr, mode, variant, args, results, ret >>

\* Pushes only the left range: the right part of every split is never ordered.
iterativePush_LeftOnly ==
  /\ Running("iterativeQuickSort")
  /\ Top.pc = "after"
  /\ stack' = stack \o << Top.low, Top.pivotIndex - 1 >>
  /\ frames' = SetTop([Top EXCEPT !.pc = "while"])
  /\ UNCHANGED << verdict, bench, input, arr, mode, variant, args, loop, results, ret, stats >>

\* Pushes a left range that still contains the pivot: (low, pivotIndex).
iterativePush_KeepPivot ==
  /\ Running("iterativeQuickSort")
  /\ Top.pc = "after"
  /\ stack' = stack \o << Top.low, Top.pivotIndex, Top.pivotIndex + 1, Top.high >>
  /\ frames' = SetTop([Top EXCEPT !.pc = "while"])
  /\ UNCHANGED << verdict, bench, input, arr, mode, variant, args, loop, results, ret, stats >>

\* Push the left range (low, pivotIndex - 1), then the right (pivotIndex + 1, high).
iterativePush ==
  /\ Running("iterativeQuickSort")
  /\ Top.pc = "after"
  /\ stack' = stack \o << Top.low, Top.pivotIndex - 1, Top.pivotIndex + 1, Top.high >>
  /\ frames' = SetTop([Top EXCEPT !.pc = "while"])
  /\ UNCHANGED << verdict, bench, input, arr, mode, variant, args, loop, results, ret, stats >>

\* The while loop ends on the empty stack: return arr.
iterativeReturn ==
  /\ Running("iterativeQuickSort")
  /\ Top.pc = "while"
  /\ Len(stack) = 0
  /\ ReturnArr

----------------------------------------------------------------------------

\* The steps of the sort functions and of the harness calling them with the
\* default bounds.
NextDefault ==
  \/ Call
  \/ quickSort
  \/ randomizedQuickSort
  \/ medianOfThreeQuickSort
  \/ threeWayQuickSort
  \/ partitionLoop
  \/ partitionReturn
  \/ threeWayLoop
  \/ threeWayReturn
  \/ RecurseLeft
  \/ RecurseRight
  \/ Return
  \/ iterativeInit
  \/ iterativePop
  \/ iterativePush
  \/ iterativeReturn

Next ==
  \/ NextDefault
  \/ CallWithBounds
  \/ benchmarkSort
  \/ isSortedCall
  \/ partitionCall
  \/ hoareCall
  \/ hoareScanI
  \/ hoareScanJ
  \/ hoareTest
  \/ helperReturn

Spec == Init /\ [][Next]_vars

\* The inputs of the runs to completion: the enumeration one element shorter,
\* and the documented inputs.
FairInputs == SeqsUpTo(MaxLen - 1) \cup DocInputs

FairInit == Init /\ input \in FairInputs

\* The calls with default bounds, run to completion: the code has no
\* suspension point, so a step that can be taken is taken.
FairSpec == FairInit /\ [][NextDefault]_vars /\ WF_vars(NextDefault)

\* A direct call of hoarePartition, run to completion in the same way.
HoareNext == hoareCall \/ hoareScanI \/ hoareScanJ \/ hoareTest \/ helperReturn

HoareFairSpec == Init /\ [][HoareNext]_vars /\ WF_vars(HoareNext)

\* The two partition functions called directly, on every range of every
\* array up to MaxHelperLen.
HelperInputs == SeqsUpTo(MaxHelperLen)

HelperInit == StartOn(HelperInputs)

HelperNext == partitionCall \/ partitionLoop \/ partitionReturn \/ HoareNext

HelperSpec == HelperInit /\ [][HelperNext]_vars

TypeOK ==
  /\ mode \in {"idle", "running", "returned", "helperReturned"}
  /\ variant \in VariantSet \cup Helpers \cup {"none"}
  /\ Len(arr) = Len(input)
  /\ ret \in {0, ArrRef}
  /\ stats.swaps < MaxCount /\ stats.iters < MaxCount
  /\ stats.partitions < MaxCount /\ stats.pops < MaxCount
  /\ bench.testArr \in {0, ArrRef, CallerRef}
  /\ verdict.given \in BOOLEAN /\ verdict.sorted \in BOOLEAN
  /\ bench.report.algorithm \in Labels \cup {""}

----------------------------------------------------------------------------
\* Vocabulary of the properties

Range(a) == { a[k] : k \in 1..Len(a) }

Occurrences(a, v) == Cardinality({ k \in 1..Len(a) : a[k] = v })

IsPermutation(a, b) ==
  /\ Len(a) = Len(b)
  /\ \A v \in Range(a) \cup Range(b) : Occurrences(a, v) = Occurrences(b, v)

NonDescending(a) == \A k \in 1..(Len(a) - 1) : a[k] <= a[k + 1]

\* The elements at the 0-based indices low..high.
Slice(a, low, high) == SubSeq(a, low + 1, high + 1)

Returned == mode = "returned"

DefaultReturned == Returned /\ ~ args.explicit

AllRun == Returned /\ Done = Len(Variants)

\* C1: on a call with default bounds every variant leaves the array
\* non-descending.
C1_OutputNonDescending == DefaultReturned => NonDescending(arr)

C1_Witness ==
  /\ AllRun
  /\ ~ NonDescending(input)
  /\ Len(input) >= 3
  /\ \A v \in VariantSet : NonDescending(results[v])

\* C2: the array a variant leaves has the length and the multiset of elements
\* of its input.
C2_OutputIsPermutation == Returned => IsPermutation(arr, input)

C2_Witness ==
  /\ AllRun
  /\ arr # input
  /\ Cardinality(Range(input)) < Len(input)
  /\ \A v \in VariantSet : IsPermutation(results[v], input)

\* C3: all variants that have run on the same input left element-for-element
\* identical arrays; in particular iterativeQuickSort agrees with quickSort.
C3_VariantsAgree ==
  \A v, w \in VariantSet :
    (results[v] # NotRun /\ results[w] # NotRun) => results[v] = results[w]

C3_Witness ==
  /\ AllRun
  /\ ~ NonDescending(input)
  /\ results["iterativeQuickSort"] = results["quickSort"]
  /\ results["threeWayQuickSort"] = results["randomizedQuickSort"]

\* C4: the five variants, called one after the other on the same input, all
\* return, whatever the random indices drawn, and when iterativeQuickSort
\* returns its explicit stack is empty.
C4_Terminates ==
  /\ <>AllRun
  /\ [](Returned => Len(stack) = 0)

C4_Witness ==
  /\ AllRun
  /\ Len(input) >= 3
  /\ Cardinality(Range(input)) = 1
  /\ Len(stack) = 0

\* C5 as stated: with explicit bounds 0 <= low <= high <= n-1 every variant,
\* iterativeQuickSort included, orders only arr[low..high] and leaves every
\* other index unchanged.
SubrangeOrdered ==
  /\ NonDescending(Slice(arr, args.low, args.high))
  /\ IsPermutation(Slice(arr, args.low, args.high), Slice(input, args.low, args.high))
  /\ \A k \in 0..(Len(arr) - 1) :
       (k < args.low \/ k > args.high) => At(arr, k) = At(input, k)

C5_Original == (Returned /\ args.explicit) => SubrangeOrdered

\* C5 amended: the four recursive variants order only arr[low..high];
\* iterativeQuickSort takes no bounds and orders the whole array.
C5_SubrangeRecursiveOnly ==
  (Returned /\ args.explicit) =>
    IF variant = "iterativeQuickSort"
    THEN NonDescending(arr) /\ IsPermutation(arr, input)
    ELSE SubrangeOrdered

C5_Witness ==
  /\ Returned /\ args.explicit
  /\ variant = "medianOfThreeQuickSort"
  /\ args.low > 0 /\ args.low < args.high
  /\ Slice(arr, args.low, args.high) # Slice(input, args.low, args.high)
  /\ At(arr, args.low - 1) > At(arr, args.low)
  /\ SubrangeOrdered

\* C6: a variant sorts the array it was given and returns that same array:
\* when the call returns, the reference handed back is the argument's and the
\* argument itself holds the ordered elements.
C6_InPlaceSameArray ==
  Returned =>
    /\ ret = ArrRef
    /\ (~ args.explicit => NonDescending(arr) /\ IsPermutation(arr, input))

C6_Witness ==
  /\ AllRun
  /\ ret = ArrRef
  /\ arr # input
  /\ NonDescending(arr)

\* C7: a variant called on an already non-descending array leaves it
\* element-for-element unchanged.
C7_Idempotent == (DefaultReturned /\ NonDescending(input)) => arr = input

C7_Witness ==
  /\ AllRun
  /\ NonDescending(input)
  /\ Len(input) >= 3
  /\ Cardinality(Range(input)) >= 2
  /\ \A v \in VariantSet : results[v] = input

\* C8: on an array of length 0 or 1 no variant ever calls a partition or a
\* swap, the array is returned unchanged, and iterativeQuickSort pops its
\* initial range once and pushes nothing more.
C8_BoundaryNoOp ==
  (Len(input) <= 1 /\ variant \notin Helpers) =>
    /\ stats.partitions = 0
    /\ stats.swaps = 0
    /\ stats.iters = 0
    /\ loop = NoLoop
    /\ arr = input
    /\ (Returned /\ variant = "iterativeQuickSort") =>
          (stats.pops = 1 /\ Len(stack) = 0)

C8_Witness ==
  /\ AllRun
  /\ Len(input) = 1
  /\ \A v \in VariantSet : results[v] = input

\* C9: every variant turns [64, 34, 25, 12, 22, 11, 90] into
\* [11, 12, 22, 25, 34, 64, 90] and [5, 4, 3, 2, 1] into [1, 2, 3, 4, 5].
C9_DocumentedExamples ==
  DefaultReturned =>
    /\ (input = <<64, 34, 25, 12, 22, 11, 90>> => arr = <<11, 12, 22, 25, 34, 64, 90>>)
    /\ (input = <<5, 4, 3, 2, 1>> => arr = <<1, 2, 3, 4, 5>>)

C9_Witness ==
  /\ AllRun
  /\ input = <<64, 34, 25, 12, 22, 11, 90>>
  /\ \A v \in VariantSet : results[v] = <<11, 12, 22, 25, 34, 64, 90>>

\* C10: on n >= 2 all-equal elements threeWayQuickSort makes one
\* threeWayPartition pass of n-1 iterations and no swap, the pass returns
\* [lt, gt] = [0, n-1], both recursive calls get an empty range and start no
\* further pass, and the array is unchanged.
AllEqualThreeWay ==
  /\ variant = "threeWayQuickSort"
  /\ ~ args.explicit
  /\ Len(input) >= 2
  /\ Cardinality(Range(input)) = 1

C10_AllEqualOnePass ==
  AllEqualThreeWay =>
    /\ stats.swaps = 0
    /\ arr = input
    /\ stats.partitions <= 1
    /\ stats.iters <= Len(input) - 1
    /\ Len(frames) <= 2
    /\ \A k \in 2..Len(frames) : frames[k].low > frames[k].high
    /\ (Len(frames) >= 1 /\ frames[1].pc \in {"after", "right", "ret"}) =>
          /\ frames[1].lt = 0
          /\ frames[1].gt = Len(input) - 1
          /\ stats.iters = Len(input) - 1
    /\ Returned => (stats.partitions = 1 /\ stats.iters = Len(input) - 1)

C10_Witness ==
  /\ AllEqualThreeWay
  /\ Returned
  /\ Len(input) >= 3
  /\ stats.partitions = 1
  /\ stats.iters = Len(input) - 1

----------------------------------------------------------------------------
\* The partition functions called on their own

HelperReturned(fn) == mode = "helperReturned" /\ variant = fn

\* The range is a rearrangement of what it held at the call, and nothing
\* outside it moved.
RangeRearranged(low, high) ==
  /\ IsPermutation(Slice(arr, low, high), Slice(input, low, high))
  /\ \A k \in 0..(Len(arr) - 1) : (k < low \/ k > high) => At(arr, k) = At(input, k)

\* C11: partition(arr, low, high) with 0 <= low <= high <= n-1 returns p in
\* low..high with arr[p] the original arr[high], arr[low..p-1] <= pivot,
\* arr[p+1..high] > pivot, the range rearranged and the rest untouched.
C11_LomutoPostcondition ==
  HelperReturned("partition") =>
    LET p     == Top.pivotIndex
        pivot == At(input, args.high)
    IN  /\ args.low <= p /\ p <= args.high
        /\ At(arr, p) = pivot
        /\ \A k \in args.low..(p - 1) : At(arr, k) <= pivot
        /\ \A k \in (p + 1)..args.high : At(arr, k) > pivot
        /\ RangeRearranged(args.low, args.high)

C11_Witness ==
  /\ HelperReturned("partition")
  /\ args.low < Top.pivotIndex /\ Top.pivotIndex < args.high
  /\ arr # input
  /\ At(arr, Top.pivotIndex) = At(input, args.high)

\* C12: for low < high, hoarePartition(arr, low, high) returns j with
\* arr[low..j] <= pivot and arr[j+1..high] >= pivot, pivot the original
\* arr[low], and arr[low..high] a permutation of its former contents.
C12_HoareSplit ==
  (HelperReturned("hoarePartition") /\ args.low < args.high) =>
    LET j     == Top.pivotIndex
        pivot == At(input, args.low)
    IN  /\ \A k \in args.low..j : At(arr, k) <= pivot
        /\ \A k \in (j + 1)..args.high : At(arr, k) >= pivot
        /\ IsPermutation(Slice(arr, args.low, args.high),
                         Slice(input, args.low, args.high))

C12_Witness ==
  /\ HelperReturned("hoarePartition")
  /\ args.low = 0 /\ args.high = 2
  /\ stats.swaps >= 1
  /\ arr # input
  /\ Top.pivotIndex = 0
  /\ At(arr, 1) > At(arr, 0)

\* C13 as stated: the index hoarePartition returns is where the pivot value
\* lies afterwards, everything left of it <= pivot, everything right >= pivot.
C13_HoarePivotAtReturnedIndex ==
  (HelperReturned("hoarePartition") /\ args.low < args.high) =>
    LET j     == Top.pivotIndex
        pivot == At(input, args.low)
    IN  /\ At(arr, j) = pivot
        /\ \A k \in args.low..(j - 1) : At(arr, k) <= pivot
        /\ \A k \in (j + 1)..args.high : At(arr, k) >= pivot

----------------------------------------------------------------------------
\* Identity of equal elements

\* Elements with equal keys stand in the order they had in the input.
Stable ==
  \A p, q \in 1..Len(arr) :
    (p < q /\ arr[p] = arr[q]) => stats.ids[p] < stats.ids[q]

\* C14: stability is not guaranteed: quickSort on [1, 1, 0] returns [0, 1, 1]
\* with the two elements of key 1 in the opposite order.
C14_LomutoUnstable ==
  (DefaultReturned /\ variant = "quickSort" /\ input = <<1, 1, 0>>) =>
    (arr = <<0, 1, 1>> /\ stats.ids = <<2, 1, 0>> /\ ~ Stable)

C14_Witness ==
  /\ DefaultReturned
  /\ variant = "quickSort"
  /\ input = <<1, 1, 0>>
  /\ ~ Stable

----------------------------------------------------------------------------
\* Index safety

\* The running or finished call is a sort variant, or partition called with
\* bounds inside the array.
SortOrPartition == variant \in VariantSet \cup {"partition"}

\* C15: no sort variant, and neither partition, medianOfThree nor
\* threeWayPartition under them, reads or swaps at an index outside
\* [0, n-1]; no undefined element is met and the length never changes.
C15_IndicesInBounds ==
  SortOrPartition =>
    /\ ~ stats.oob
    /\ Len(arr) = Len(input)
    /\ \A k \in 1..Len(arr) : arr[k] # Undef
    /\ loop.fn # "none" => loop.pivot # Undef

C15_Witness ==
  /\ AllRun
  /\ Len(input) >= 3
  /\ stats.swaps >= 2
  /\ ~ stats.oob

----------------------------------------------------------------------------
\* benchmarkSort

BenchmarkReturned == bench.active /\ Returned

\* C16: benchmarkSort runs the sort on a copy: no step of a benchmark, from
\* its call to its return, changes the caller's array.
C16_BenchmarkKeepsInput ==
  [][(bench.active \/ bench'.active) => input' = input]_vars

C16_Witness ==
  /\ BenchmarkReturned
  /\ arr # input
  /\ NonDescending(arr)
  /\ ~ NonDescending(input)

\* C17: the report of a benchmark of any sort variant has isSorted true,
\* arrayLength the input's length and algorithm the label given.
C17_BenchmarkReport ==
  BenchmarkReturned =>
    /\ bench.report.isSorted = TRUE
    /\ bench.report.arrayLength = Len(input)
    /\ bench.report.algorithm = bench.name
    /\ bench.name \in Labels

C17_Witness ==
  /\ BenchmarkReturned
  /\ variant = "medianOfThreeQuickSort"
  /\ bench.name = "Sorter"
  /\ bench.report = [algorithm |-> "Sorter", isSorted |-> TRUE, arrayLength |-> 3]
  /\ Cardinality(Range(input)) = 2
  /\ ~ NonDescending(input)

----------------------------------------------------------------------------
\* Median-of-three selection

\* The median of three values: at least two of them are <= it and at least
\* two are >= it.
MedianOf3(x, y, z) ==
  LET t == << x, y, z >>
  IN  CHOOSE v \in {x, y, z} :
        /\ Cardinality({ k \in 1..3 : t[k] <= v }) >= 2
        /\ Cardinality({ k \in 1..3 : t[k] >= v }) >= 2

\* medianOfThreeQuickSort is about to call medianOfThree(arr, low, high).
AtMedianCall ==
  /\ Running("medianOfThreeQuickSort")
  /\ Top.pc = "entry"
  /\ Top.low < Top.high

\* What the call leaves: the three positions in order, mid returned, the
\* rest of the array as it was.
MedianOrdersThree ==
  AtMedianCall =>
    LET m == medianOfThree(arr, Top.low, Top.high)
    IN  /\ m.mid = Mid(Top.low, Top.high)
        /\ At(m.arr, Top.low) <= At(m.arr, m.mid)
        /\ At(m.arr, m.mid) <= At(m.arr, Top.high)
        /\ IsPermutation(m.arr, arr)
        /\ \A k \in 0..(Len(arr) - 1) :
             k \notin {Top.low, m.mid, Top.high} => At(m.arr, k) = At(arr, k)

\* The returned index holds the median of the values that were at
\* (low, mid, high).
MedianAtMid ==
  AtMedianCall =>
    LET m == medianOfThree(arr, Top.low, Top.high)
    IN  At(m.arr, m.mid) =
          MedianOf3(At(arr, Top.low), At(arr, m.mid), At(arr, Top.high))

\* The same step goes on to partition around the value medianOfThree left
\* at mid.
PivotIsValueAtMid ==
  AtMedianCall =>
    /\ loop'.fn = "partition"
    /\ loop'.pivot = At(medianOfThree(arr, Top.low, Top.high).arr,
                        Mid(Top.low, Top.high))

\* C18: for low < high, medianOfThree leaves arr[low] <= arr[mid] <=
\* arr[high], changes at most those three positions, returns mid, which holds
\* the median of the three original values, and medianOfThreeQuickSort
\* partitions around that value.
C18_MedianOfThree ==
  [][MedianOrdersThree /\ MedianAtMid /\ PivotIsValueAtMid]_vars

\* What the code does keep: all of it for a range of three or more elements;
\* for a range of two, where mid = low, the returned index holds the smaller
\* of the two values.
MedianOfDistinctPositions ==
  [][/\ MedianOrdersThree
     /\ PivotIsValueAtMid
     /\ (AtMedianCall /\ Top.high - Top.low >= 2 => MedianAtMid)
     /\ (AtMedianCall /\ Top.high = Top.low + 1 =>
           LET m == medianOfThree(arr, Top.low, Top.high)
           IN  /\ m.mid = Top.low
               /\ At(m.arr, m.mid) <= At(arr, Top.low)
               /\ At(m.arr, m.mid) <= At(arr, Top.high))]_vars

----------------------------------------------------------------------------
\* Three-way partition zones

\* The zones of a range low..high around the value v: less than v below lt,
\* equal to v on lt..eq, greater than v above gt.
Zones(a, low, lt, eq, gt, high, v) ==
  /\ \A k \in low..(lt - 1) : Lt(At(a, k), v)
  /\ \A k \in lt..eq : At(a, k) = v
  /\ \A k \in (gt + 1)..high : Gt(At(a, k), v)

\* At the test of every iteration of threeWayPartition's loop, the last
\* (failing) one included.
ThreeWayLoopZones ==
  loop.fn = "threeWayPartition" =>
    /\ loop.low <= loop.lt /\ loop.lt < loop.i
    /\ loop.i <= loop.gt + 1 /\ loop.gt <= loop.high
    /\ Zones(arr, loop.low, loop.lt, loop.i - 1, loop.gt, loop.high, loop.pivot)

\* A threeWayQuickSort activation that has its [lt, gt].
Partitioned(f) == f.fn = "threeWayQuickSort" /\ f.pc \in {"after", "right", "ret"}

\* What [lt, gt] delimits, from the return on and for as long as the
\* activation lives.
ThreeWayResultZones ==
  \A k \in 1..Len(frames) :
    Partitioned(frames[k]) =>
      LET f == frames[k]
      IN  /\ f.low <= f.lt /\ f.lt <= f.gt /\ f.gt <= f.high
          /\ Zones(arr, f.low, f.lt, f.gt, f.gt, f.high, At(arr, f.lt))

\* The recursive calls an activation has made: first on [low, lt-1], then on
\* [gt+1, high].
ThreeWayRecursion ==
  \A k \in 1..(Len(frames) - 1) :
    Partitioned(frames[k]) =>
      LET f == frames[k]
          g == frames[k + 1]
      IN  /\ f.pc # "after"
          /\ g.fn = "threeWayQuickSort"
          /\ f.pc = "right" => g.low = f.low /\ g.high = f.lt - 1
          /\ f.pc = "ret" => g.low = f.gt + 1 /\ g.high = f.high

\* The pivot is the value at low when threeWayPartition is called, and the
\* value the equal zone holds when it returns.
ThreeWayPivot ==
  /\ (Running("threeWayQuickSort") /\ Top.pc = "entry" /\ Top.low < Top.high
        => loop'.fn = "threeWayPartition" /\ loop'.pivot = At(arr, Top.low))
  /\ (loop.fn = "threeWayPartition" /\ loop'.fn # "threeWayPartition"
        => /\ Partitioned(frames'[Len(frames')])
           /\ frames'[Len(frames')].pc = "after"
           /\ At(arr', frames'[Len(frames')].lt) = loop.pivot)

\* No step writes into the equal zone of a living activation: the positions
\* lt..gt keep their values and their elements.
ThreeWayEqualZoneKept ==
  \A k \in 1..Len(frames) :
    (k <= Len(frames') /\ Partitioned(frames[k])) =>
      \A p \in frames[k].lt..frames[k].gt :
        /\ At(arr', p) = At(arr, p)
        /\ stats'.ids[p + 1] = stats.ids[p + 1]

\* C19: threeWayPartition keeps arr[low..lt-1] < pivot, arr[lt..i-1] == pivot
\* and arr[gt+1..high] > pivot at every iteration, with pivot the original
\* arr[low]; it returns [lt, gt], low <= lt <= gt <= high, delimiting the
\* three zones; threeWayQuickSort recurses on [low, lt-1] and [gt+1, high]
\* only, and the equal zone is not written again.
C19_ThreeWayZones ==
  /\ [](ThreeWayLoopZones /\ ThreeWayResultZones /\ ThreeWayRecursion)
  /\ [][ThreeWayPivot /\ ThreeWayEqualZoneKept]_vars

\* Both recursive calls made around a one-element equal zone in the middle.
C19_Witness ==
  /\ Len(frames) >= 2
  /\ Partitioned(frames[1])
  /\ frames[1].pc = "ret"
  /\ frames[1].low < frames[1].lt
  /\ frames[1].gt < frames[1].high
  /\ frames[2].low = frames[1].gt + 1
  /\ stats.swaps > 0

----------------------------------------------------------------------------
\* Pivot finality

\* v put in its place in the non-descending sequence b.
RECURSIVE Insert(_, _)
Insert(b, v) ==
  IF b = << >> THEN << v >>
  ELSE IF v <= Head(b) THEN << v >> \o b
  ELSE << Head(b) >> \o Insert(Tail(b), v)

RECURSIVE SortedSeq(_)
SortedSeq(a) ==
  IF a = << >> THEN << >> ELSE Insert(SortedSeq(Tail(a)), Head(a))

\* The variants that sort with partition.
PartitionVariants ==
  { "quickSort", "randomizedQuickSort", "medianOfThreeQuickSort",
    "iterativeQuickSort" }

\* The array the current call is to leave: the input with the range of the
\* call in non-descending order (iterativeQuickSort's range is the whole
\* array).
FinalOutput ==
  LET whole == variant = "iterativeQuickSort"
      low   == IF whole THEN 0 ELSE args.low
      high  == IF whole THEN Len(input) - 1 ELSE args.high
  IN  SubSeq(input, 1, low) \o SortedSeq(Slice(input, low, high))
        \o SubSeq(input, high + 2, Len(input))

InPartitionSort == variant \in PartitionVariants /\ mode \in {"running", "returned"}

\* C20: in the four variants that use partition, no swap writes to an index
\* partition has returned, and the element there is already the one the
\* final sorted output has at that index.
C20_PivotFinal ==
  InPartitionSort =>
    /\ ~ stats.pivots.rewritten
    /\ \A p \in stats.pivots.fixed : At(arr, p) = At(FinalOutput, p)
    /\ Returned => arr = FinalOutput

\* One pivot placed, the rest of the array still to be put in order.
C20_Witness ==
  /\ InPartitionSort
  /\ mode = "running"
  /\ variant = "iterativeQuickSort"
  /\ Cardinality(stats.pivots.fixed) = 1
  /\ stats.swaps > 0
  /\ arr # FinalOutput

----------------------------------------------------------------------------
\* Lomuto worst case

StrictlyAscending(a) == \A k \in 1..(Len(a) - 1) : a[k] < a[k + 1]

StrictlyDescending(a) == \A k \in 1..(Len(a) - 1) : a[k] > a[k + 1]

\* quickSort called with the default bounds on a sorted or reverse-sorted
\* input of n >= 1 distinct elements.
WorstCaseRun ==
  /\ variant = "quickSort"
  /\ mode \in {"running", "returned"}
  /\ ~ args.explicit
  /\ Len(input) >= 1
  /\ StrictlyAscending(input) \/ StrictlyDescending(input)

\* C21: on such an input every partition of quickSort returns an endpoint of
\* its range, and the whole sort makes n-1 partitions and n(n-1)/2
\* comparisons with a pivot (one per iteration of partition's loop).
C21_LomutoWorstCase ==
  WorstCaseRun =>
    /\ \A k \in 1..Len(frames) :
         frames[k].pc \in {"after", "right", "ret"} =>
           frames[k].pivotIndex \in {frames[k].low, frames[k].high}
    /\ Returned =>
         /\ stats.partitions = Len(input) - 1
         /\ 2 * stats.iters = Len(input) * (Len(input) - 1)

C21_Witness ==
  /\ WorstCaseRun
  /\ Returned
  /\ input = <<5, 4, 3, 2, 1>>
  /\ stats.partitions = 4
  /\ stats.iters = 10

----------------------------------------------------------------------------
\* Randomized pivot

\* randomizedQuickSort is about to draw randomIndex for the range low..high.
AtRandomChoice ==
  /\ Running("randomizedQuickSort")
  /\ Top.pc = "entry"
  /\ Top.low < Top.high

\* The element brought to high comes from an index of low..high.
RandomIndexInRange ==
  AtRandomChoice =>
    \E r \in Top.low..Top.high :
      /\ arr' = swap(arr, r, Top.high)
      /\ stats'.ids = swap(stats.ids, r, Top.high)

\* C22: randomIndex always lies in [low, high], and whatever the random
\* choices of a run, the array it leaves is the same: the input with the
\* range of the call in non-descending order.
C22_RandomizedDeterministic ==
  /\ [][RandomIndexInRange]_vars
  /\ []((Returned /\ variant = "randomizedQuickSort") =>
          /\ arr = FinalOutput
          /\ (~ args.explicit => NonDescending(arr) /\ IsPermutation(arr, input)))

\* A run on [0, 1, 2] that drew the middle index first: one partition, where
\* the run drawing high each time makes two; both leave [0, 1, 2].
C22_Witness ==
  /\ Returned
  /\ variant = "randomizedQuickSort"
  /\ ~ args.explicit
  /\ input = <<0, 1, 2>>
  /\ arr = <<0, 1, 2>>
  /\ stats.partitions = 1

----------------------------------------------------------------------------
\* The explicit stack of iterativeQuickSort

InIterativeSort ==
  variant = "iterativeQuickSort" /\ mode \in {"running", "returned"}

StackPairs == 1..(Len(stack) \div 2)

PairLow(k) == stack[2 * k - 1]

PairHigh(k) == stack[2 * k]

\* Every pair satisfies 0 <= low <= high + 1 <= n.
PairsWellFormed ==
  \A k \in StackPairs :
    /\ 0 <= PairLow(k)
    /\ PairLow(k) <= PairHigh(k) + 1
    /\ PairHigh(k) + 1 <= Len(input)

\* No index lies in two ranges of the stack.
PairsDisjoint ==
  \A k, m \in StackPairs :
    k # m => (PairLow(k)..PairHigh(k)) \cap (PairLow(m)..PairHigh(m)) = {}

OnStack(p) == \E k \in StackPairs : PairLow(k) <= p /\ p <= PairHigh(k)

\* The range popped and not yet replaced by its two parts: partition is at
\* work on it, or has just returned.
InHand(p) ==
  /\ Len(frames) > 0
  /\ Top.pc \in {"partition", "after"}
  /\ Top.low <= p /\ p <= Top.high

IsFinal(p) == At(arr, p) = At(SortedSeq(input), p)

PartitionCallInBounds ==
  loop.fn = "partition" =>
    /\ 0 <= loop.low
    /\ loop.low < loop.high
    /\ loop.high <= Len(input) - 1

\* iterativeQuickSort past the two initial pushes.
IterativeStarted ==
  /\ InIterativeSort
  /\ mode = "running" => Top.pc # "entry"

\* C24 as stated: at every point the pairs are well formed and disjoint,
\* every index not covered by a range on the stack holds its final sorted
\* value, and partition is called with 0 <= low < high <= n-1.
C24_Original ==
  IterativeStarted =>
    /\ PairsWellFormed
    /\ PairsDisjoint
    /\ \A p \in 0..(Len(input) - 1) : ~ OnStack(p) => IsFinal(p)
    /\ PartitionCallInBounds

\* C24 amended: the same, with the range popped and being partitioned
\* counted as covered, and no stack range overlapping it.
C24_StackWellFormed ==
  IterativeStarted =>
    /\ PairsWellFormed
    /\ PairsDisjoint
    /\ \A p \in 0..(Len(input) - 1) :
         /\ ~ (OnStack(p) /\ InHand(p))
         /\ (~ OnStack(p) /\ ~ InHand(p)) => IsFinal(p)
    /\ PartitionCallInBounds

\* A partition in progress with a non-empty range waiting on the stack and
\* two pivots already placed.
C24_Witness ==
  /\ IterativeStarted
  /\ mode = "running"
  /\ Top.pc = "partition"
  /\ \E k \in StackPairs : PairLow(k) <= PairHigh(k)
  /\ Cardinality(stats.pivots.fixed) >= 2
  /\ \E p \in 0..(Len(input) - 1) : ~ OnStack(p) /\ ~ InHand(p) /\ IsFinal(p)
  /\ arr # SortedSeq(input)

----------------------------------------------------------------------------
\* Safety and progress of hoarePartition

\* hoarePartition at work on a range of two or more elements.
InHoare == loop.fn = "hoarePartition" /\ loop.low < loop.high

\* The indices the scans read: i is incremented and j decremented before
\* each read, so the next read of the i scan is at i + 1 and that of the j
\* scan at j - 1.
HoareReadsInRange ==
  InHoare =>
    /\ Top.pc = "scanI" => (loop.low <= loop.i + 1 /\ loop.i + 1 <= loop.high)
    /\ Top.pc = "scanJ" => (loop.low <= loop.j - 1 /\ loop.j - 1 <= loop.high)
    /\ ~ stats.oob

HoareSplitInside ==
  (HelperReturned("hoarePartition") /\ args.low < args.high) =>
    /\ args.low <= Top.pivotIndex
    /\ Top.pivotIndex < args.high

\* C25: on every range with low < high hoarePartition terminates, its scans
\* read only indices of low..high, and the j it returns satisfies
\* low <= j < high.
C25_HoareSafeProgress ==
  /\ [](HoareReadsInRange /\ HoareSplitInside)
  /\ (InHoare ~> HelperReturned("hoarePartition"))

\* Returned on an all-equal range of three elements, after a swap.
C25_Witness ==
  /\ HelperReturned("hoarePartition")
  /\ args.low = 0 /\ args.high = 2
  /\ Cardinality(Range(input)) = 1
  /\ stats.swaps >= 1
  /\ Top.pivotIndex \in {0, 1}

----------------------------------------------------------------------------
\* Swaps of the two partition schemes

\* The swap calls partition(a, low, high) makes from index j on: one for
\* each a[j] <= pivot met by the loop, and the last one placing the pivot.
\* (The loop's swaps only move elements below j, so the scan meets the
\* values of a.)
RECURSIVE PartitionSwapsFrom(_, _, _)
PartitionSwapsFrom(a, j, high) ==
  IF j < high
  THEN (IF Leq(At(a, j), At(a, high)) THEN 1 ELSE 0) + PartitionSwapsFrom(a, j + 1, high)
  ELSE 1

PartitionSwaps(a, low, high) == PartitionSwapsFrom(a, low, high)

RangeLen == args.high - args.low + 1

\* The count above is the number of swaps the run of partition makes.
LomutoSwapCount ==
  HelperReturned("partition") =>
    /\ stats.swaps = PartitionSwaps(input, args.low, args.high)
    /\ 1 <= stats.swaps /\ stats.swaps <= RangeLen

\* C26 as stated: on the same range contents hoarePartition makes no more
\* swaps than partition.
C26_HoareNoMoreSwaps ==
  HelperReturned("hoarePartition") =>
    stats.swaps <= PartitionSwaps(input, args.low, args.high)

\* C26 amended: hoarePartition makes at most floor(n/2) swaps on a range of n
\* elements and partition between 1 and n; on a range of up to three
\* elements hoarePartition makes no more swaps than partition.
C26_SwapBounds ==
  /\ LomutoSwapCount
  /\ HelperReturned("hoarePartition") =>
       /\ 2 * stats.swaps <= RangeLen
       /\ RangeLen <= 3 => stats.swaps <= PartitionSwaps(input, args.low, args.high)

\* hoarePartition back from [2, 2, 1, 0] with two swaps made, where partition
\* makes one.
C26_Witness ==
  /\ HelperReturned("hoarePartition")
  /\ input = <<2, 2, 1, 0>>
  /\ args.low = 0 /\ args.high = 3
  /\ stats.swaps = 2
  /\ PartitionSwaps(input, 0, 3) = 1

----------------------------------------------------------------------------
\* Median-of-three and degenerate splits

RangeSize(f) == f.high - f.low + 1

\* An activation of medianOfThreeQuickSort that has its pivot index, on a
\* range of three or more pairwise distinct elements.
MedianSplit(f) ==
  /\ f.fn = "medianOfThreeQuickSort"
  /\ f.pc \in {"after", "right", "ret"}
  /\ RangeSize(f) >= 3
  /\ Cardinality(Range(Slice(arr, f.low, f.high))) = RangeSize(f)

\* C27: in medianOfThreeQuickSort, on a range of at least three pairwise
\* distinct elements partition returns an index strictly between low and
\* high: both recursive sub-ranges are non-empty and hold at most size - 2
\* elements.
C27_MedianNoDegenerateSplit ==
  \A k \in 1..Len(frames) :
    MedianSplit(frames[k]) =>
      LET f     == frames[k]
          left  == LeftRange(f).high - LeftRange(f).low + 1
          right == RightRange(f).high - RightRange(f).low + 1
      IN  /\ f.low < f.pivotIndex /\ f.pivotIndex < f.high
          /\ 1 <= left /\ left <= RangeSize(f) - 2
          /\ 1 <= right /\ right <= RangeSize(f) - 2

\* A split inside a split: the second activation works on three or more
\* distinct elements of the seven-element example.
C27_Witness ==
  /\ Len(frames) >= 2
  /\ Len(input) = 7
  /\ MedianSplit(frames[1])
  /\ MedianSplit(frames[2])
  /\ frames[2].low < frames[2].pivotIndex
  /\ frames[2].pivotIndex < frames[2].high

----------------------------------------------------------------------------
\* The array at every step

\* A call has been made: arr is the array handed to it.
Called == mode # "idle"

\* arr is the input rearranged: position k holds the input's element number
\* ids[k], and ids, moved by the swap calls alone, is a rearrangement of the
\* indices.
RearrangedBySwaps ==
  /\ Len(stats.ids) = Len(input)
  /\ { stats.ids[k] : k \in 1..Len(stats.ids) } = 0..(Len(input) - 1)
  /\ \A k \in 1..Len(arr) : arr[k] = At(input, stats.ids[k])

\* C28: in every variant, at every state of the sort and not only at its
\* end, the array has the input's length and is a permutation of it, the
\* swap calls being its only mutation and their indices lying in the array.
C28_PermutationAtEveryStep ==
  Called =>
    /\ Len(arr) = Len(input)
    /\ IsPermutation(arr, input)
    /\ RearrangedBySwaps
    /\ ~ stats.oob

\* In the middle of a three-way partition: elements moved, array not yet in
\* order.
C28_Witness ==
  /\ mode = "running"
  /\ loop.fn = "threeWayPartition"
  /\ loop.i <= loop.gt
  /\ stats.swaps >= 1
  /\ arr # input
  /\ ~ NonDescending(arr)
  /\ IsPermutation(arr, input)

----------------------------------------------------------------------------
\* isSorted

\* Some index i >= 1 has a[i] < a[i-1].
HasDescent(a) == \E i \in 1..(Len(a) - 1) : At(a, i) < At(a, i - 1)

\* C29: isSorted(arr) returns true exactly when no index i >= 1 has
\* arr[i] < arr[i-1]; it returns true for the empty and the one-element
\* array, and the call leaves arr as it was.
C29_IsSorted ==
  /\ [](verdict.given =>
          /\ verdict.sorted <=> ~ HasDescent(input)
          /\ verdict.sorted <=> NonDescending(input)
          /\ Len(input) <= 1 => verdict.sorted)
  /\ [][verdict'.given /\ ~ verdict.given => input' = input /\ arr' = input]_vars

\* true returned for an array with two equal neighbours.
C29_Witness ==
  /\ verdict.given
  /\ verdict.sorted
  /\ Len(input) = 3
  /\ input[1] = input[2]
  /\ input[2] < input[3]

====
